---- MODULE Spec2Model ----
(***************************************************************************)
(* WhatsAppService: the session-lifecycle / reconnection state machine of  *)
(* wa-send-file.  The repository holds four variants of the class:         *)
(*   "basic"  src/services/whatsappService.js   lines   9-232              *)
(*   "capped" src/services/whatsappService.js   lines 241-657              *)
(*   "mock"   src/unnamed/part_000              lines   6-486              *)
(*   "await"  src/unnamed/part_000              lines 496-788              *)
(* One step of the model is one run-to-completion segment of the Node.js   *)
(* event loop: an event handler, a timer callback, or the code of an async *)
(* function between two awaits.                                            *)
(***************************************************************************)
EXTENDS Integers, Sequences, FiniteSets, Bags, TLC

VARIABLES
  variant,       \* which of the four classes is running
  qrCode,        \* this.qrCode
  restarting,    \* this.restarting
  backoff,       \* this.backoff
  clientReady,   \* this.clientReady
  initAttempts,  \* this.initAttempts ("capped", "mock")
  mockMode,      \* this.mockMode ("mock")
  client,        \* this.client: the state of the handle object it refers to
  orphans,       \* a handle this.client no longer refers to is still alive
  initPending,   \* the initialize() promise of the latest _init is unsettled
  staleInits,    \* unsettled initialize() promises of earlier _init calls
  runs,          \* bag of restart() invocations past the guard, by await point
  timers,        \* bag of pending setTimeout callbacks [kind, delay]
  intervals,     \* number of active setInterval callbacks ("mock")
  encodings,     \* bag of qrcode.toDataURL calls whose callback is pending
  logouts,       \* bag of logout() invocations, by await point
  connects,      \* isConnected() invocations awaiting client.getState()
  waState,       \* what the last isConnected() call resolved to
  fails,         \* restart sequences in a row that ended in the catch branch,
                 \* counted up to CapDoublings
  tokenWindow,   \* a qr event was handled and no ready event since
  fetches,       \* POST /send-file requests awaiting MessageMedia.fromUrl
  served,        \* what the facade did for the last request it answered
  uncaught       \* an exception left a callback with nothing to catch it

vars == <<variant, qrCode, restarting, backoff, clientReady, initAttempts,
          mockMode, client, orphans, initPending, staleInits, runs, timers,
          intervals, encodings, logouts, connects, waState, fails, tokenWindow,
          fetches, served, uncaught>>

(***************************************************************************)
(* Bounds of the model                                                     *)
(***************************************************************************)
MaxPending == 2    \* unsettled promises, callbacks and retry timers at a time
MaxSubs == 2       \* _init calls on one handle ("basic")
MaxIntervals == 1  \* setInterval callbacks running when a restart starts ("mock")

(***************************************************************************)
(* Program constants                                                       *)
(***************************************************************************)
InitialBackoff == 2000
BackoffCap == 60000
InitRetryDelay == 10000
ResetDelay == 30000
maxAttempts == 3
MockQrDelay == 2000

NULL == "null"
Variants == {"basic", "capped", "mock", "await"}
QrStrings == {"", "ABC"}
MockQrData == "mock-whatsapp-qr"

Min(a, b) == IF a < b THEN a ELSE b

RECURSIVE Pow2(_)
Pow2(n) == IF n = 0 THEN 1 ELSE 2 * Pow2(n - 1)

\* doublings that take the backoff from its floor to its cap
CapDoublings ==
  CHOOSE n \in 0..16 : /\ InitialBackoff * Pow2(n) >= BackoffCap
                       /\ \A m \in 0..(n - 1) : InitialBackoff * Pow2(m) < BackoffCap

BagAdd(B, e) == B (+) SetToBag({e})
BagRemove(B, e) == B (-) SetToBag({e})
BagAddN(B, e, n) == B (+) [x \in {e} |-> n]

\* qrcode.toDataURL: an empty text is an error, any other text gives a data URL
toDataURL(qr) ==
  IF qr = "" THEN [err |-> TRUE, url |-> NULL]
  ELSE [err |-> FALSE, url |-> "data:image/png;base64," \o qr]

\* new Client(...): a handle that has no listeners and was not initialized
NewClient == [live |-> FALSE, ready |-> FALSE, subs |-> 0, mock |-> FALSE]

\* the object createMockClient() assigns to this.client
MockClient == [live |-> FALSE, ready |-> FALSE, subs |-> 0, mock |-> TRUE]

\* a this.client that refers to no object (falsy in `if (this.client)`)
NoClient == [live |-> FALSE, ready |-> FALSE, subs |-> 0, mock |-> FALSE, absent |-> TRUE]

TimerRebuild(d) == [kind |-> "rebuild", delay |-> d]
TimerRetry(d) == [kind |-> "retry", delay |-> d]
TimerInitRetry(d) == [kind |-> "initRetry", delay |-> d]
TimerInitReset == [kind |-> "initReset", delay |-> ResetDelay]
TimerMockQr == [kind |-> "mockQr", delay |-> MockQrDelay]

(***************************************************************************)
(* Queries                                                                 *)
(***************************************************************************)
\* isAuthenticated() that forgets the pending token
isAuthenticatedReadyOnly ==
  IF variant = "mock" /\ mockMode THEN FALSE
  ELSE clientReady

isAuthenticated ==
  IF variant = "mock" /\ mockMode THEN FALSE
  ELSE qrCode = NULL /\ clientReady

\* isClientReady() that forgets the restart in flight
isClientReadyNoRestartCheck ==
  IF variant = "mock" /\ mockMode THEN FALSE
  ELSE clientReady /\ client # NoClient

\* the "basic" class has no isClientReady method
isClientReady ==
  IF variant = "mock" /\ mockMode THEN FALSE
  ELSE clientReady /\ client # NoClient /\ ~restarting

(***************************************************************************)
(* restart(): from the call to its first await.  rdy is this.clientReady   *)
(* at the call.  A call that finds restarting set returns at once.         *)
(***************************************************************************)
FirstAwait ==
  IF variant = "mock"
  THEN IF ~mockMode /\ client # NoClient THEN "destroy" ELSE "removeSession"
  ELSE IF client # NoClient THEN "destroy"
       ELSE IF variant \in {"basic", "await"} THEN "waitClose" ELSE "removeSession"

\* restart() without its guard
restartUnguarded(rdy) ==
  /\ restarting' = TRUE
  /\ clientReady' = FALSE
  /\ runs' = BagAdd(runs, FirstAwait)

restart(rdy) ==
  IF restarting
  THEN /\ clientReady' = rdy
       /\ UNCHANGED <<restarting, runs>>
  ELSE /\ restarting' = TRUE
       /\ clientReady' = FALSE
       /\ runs' = BagAdd(runs, FirstAwait)

(***************************************************************************)
(* The external client: a handle emits events while it is alive, that is   *)
(* from initialize() until destroy() resolved or initialize() rejected,    *)
(* and the manager hears them when _init subscribed handlers on it.        *)
(***************************************************************************)
Emits(src) ==
  IF src = "cur" THEN client.live /\ client.subs > 0 /\ ~client.mock
  ELSE orphans

\* retry timers that will call restart()
PendingRetries ==
  BagCardinality([t \in {x \in DOMAIN timers :
                          x.kind \in {"retry", "initRetry", "initReset"}}
                    |-> timers[t]])

\* what is pending besides the restart sequence and the current initialize()
Pending ==
  staleInits + PendingRetries + BagCardinality(encodings)
    + BagCardinality(logouts) + connects

\* resources a further rebuild would use up
Budget ==
  /\ Pending + (IF initPending THEN 1 ELSE 0) <= MaxPending
  /\ variant = "basic" => client.subs < MaxSubs
  /\ variant = "mock" => intervals < MaxIntervals

(***************************************************************************)
(* Event handlers registered by _init / setupEvents / setupRealEvents      *)
(***************************************************************************)
\* "qr": the token is encoded asynchronously; "basic" encodes once per
\* registered handler set and has no empty-string check
OnQr(src, qr) ==
  LET n == IF variant = "basic" THEN client.subs
           ELSE IF qr = "" THEN 0 ELSE 1
  IN /\ Emits(src)
     /\ Pending + n <= MaxPending
     /\ encodings' = IF n = 0 THEN encodings ELSE BagAddN(encodings, qr, n)
     /\ tokenWindow' = TRUE
     /\ UNCHANGED <<fetches, served, uncaught>>
     /\ UNCHANGED <<variant, qrCode, restarting, backoff, clientReady, initAttempts,
                    mockMode, client, orphans, initPending, staleInits, runs, timers,
                    intervals, logouts, connects, waState, fails>>

\* the callback of qrcode.toDataURL
EncodeDone(qr) ==
  LET r == toDataURL(qr)
  IN /\ BagIn(qr, encodings)
     /\ encodings' = BagRemove(encodings, qr)
     /\ qrCode' = IF r.err \/ (variant # "basic" /\ r.url = "") THEN qrCode ELSE r.url
     /\ UNCHANGED <<fetches, served, uncaught>>
     /\ UNCHANGED <<variant, restarting, backoff, clientReady, initAttempts, mockMode,
                    client, orphans, initPending, staleInits, runs, timers, intervals,
                    logouts, connects, waState, fails, tokenWindow>>

\* a ready handler that leaves the stored token alone
OnReadyKeepsToken(src) ==
  /\ Emits(src)
  /\ clientReady' = TRUE
  /\ initAttempts' = 0
  /\ client' = IF src = "cur" THEN [client EXCEPT !.ready = TRUE] ELSE client
  /\ tokenWindow' = FALSE
  /\ UNCHANGED <<fetches, served, uncaught>>
  /\ UNCHANGED <<variant, qrCode, restarting, backoff, mockMode, orphans, initPending,
                 staleInits, runs, timers, intervals, encodings, logouts, connects,
                 waState, fails>>

\* a ready handler that leaves the attempt counter alone
OnReadyKeepsAttempts(src) ==
  /\ Emits(src)
  /\ qrCode' = NULL
  /\ clientReady' = TRUE
  /\ client' = IF src = "cur" THEN [client EXCEPT !.ready = TRUE] ELSE client
  /\ tokenWindow' = FALSE
  /\ UNCHANGED <<fetches, served, uncaught>>
  /\ UNCHANGED <<variant, restarting, backoff, initAttempts, mockMode, orphans,
                 initPending, staleInits, runs, timers, intervals, encodings, logouts,
                 connects, waState, fails>>

OnReady(src) ==
  /\ Emits(src)
  /\ qrCode' = NULL
  /\ clientReady' = TRUE
  /\ initAttempts' = 0
  /\ client' = IF src = "cur" THEN [client EXCEPT !.ready = TRUE] ELSE client
  /\ tokenWindow' = FALSE
  /\ UNCHANGED <<fetches, served, uncaught>>
  /\ UNCHANGED <<variant, restarting, backoff, mockMode, orphans, initPending,
                 staleInits, runs, timers, intervals, encodings, logouts, connects,
                 waState, fails>>

OnAuthenticated(src) ==
  /\ Emits(src)
  /\ qrCode' = NULL
  /\ UNCHANGED <<fetches, served, uncaught>>
  /\ UNCHANGED <<variant, restarting, backoff, clientReady, initAttempts, mockMode,
                 client, orphans, initPending, staleInits, runs, timers, intervals,
                 encodings, logouts, connects, waState, fails, tokenWindow>>

\* an "auth_failure" handler that also restarts the client
OnAuthFailureRestarts(src) ==
  /\ Emits(src)
  /\ restarting \/ Budget
  /\ qrCode' = NULL
  /\ restart(FALSE)
  /\ UNCHANGED <<fetches, served, uncaught>>
  /\ UNCHANGED <<variant, backoff, initAttempts, mockMode, client, orphans,
                 initPending, staleInits, timers, intervals, encodings, logouts,
                 connects, waState, fails, tokenWindow>>

OnAuthFailure(src) ==
  /\ Emits(src)
  /\ qrCode' = NULL
  /\ clientReady' = FALSE
  /\ UNCHANGED <<fetches, served, uncaught>>
  /\ UNCHANGED <<variant, restarting, backoff, initAttempts, mockMode, client, orphans,
                 initPending, staleInits, runs, timers, intervals, encodings, logouts,
                 connects, waState, fails, tokenWindow>>

\* a "disconnected" handler whose restart has no guard at all
OnDisconnectedUnguarded(src) ==
  /\ Emits(src)
  /\ restarting \/ Budget
  /\ restartUnguarded(FALSE)
  /\ UNCHANGED <<fetches, served, uncaught>>
  /\ UNCHANGED <<variant, qrCode, backoff, initAttempts, mockMode, client, orphans,
                 initPending, staleInits, timers, intervals, encodings, logouts,
                 connects, waState, fails, tokenWindow>>

\* "basic" calls restart() unconditionally, the others only when
\* this.restarting is false
OnDisconnected(src) ==
  /\ Emits(src)
  /\ restarting \/ Budget
  /\ IF variant = "basic" \/ ~restarting
     THEN restart(FALSE)
     ELSE clientReady' = FALSE /\ UNCHANGED <<restarting, runs>>
  /\ UNCHANGED <<fetches, served, uncaught>>
  /\ UNCHANGED <<variant, qrCode, backoff, initAttempts, mockMode, client, orphans,
                 initPending, staleInits, timers, intervals, encodings, logouts,
                 connects, waState, fails, tokenWindow>>

\* an "error" handler that restarts the client
OnErrorRestarts(src) ==
  /\ Emits(src)
  /\ restarting \/ Budget
  /\ restart(IF variant = "basic" THEN FALSE ELSE clientReady)
  /\ UNCHANGED <<fetches, served, uncaught>>
  /\ UNCHANGED <<variant, qrCode, backoff, initAttempts, mockMode, client, orphans,
                 initPending, staleInits, timers, intervals, encodings, logouts,
                 connects, waState, fails, tokenWindow>>

\* "error": "basic" clears clientReady, the others only log
OnError(src) ==
  /\ Emits(src)
  /\ clientReady' = IF variant = "basic" THEN FALSE ELSE clientReady
  /\ UNCHANGED <<fetches, served, uncaught>>
  /\ UNCHANGED <<variant, qrCode, restarting, backoff, initAttempts, mockMode, client,
                 orphans, initPending, staleInits, runs, timers, intervals, encodings,
                 logouts, connects, waState, fails, tokenWindow>>

(***************************************************************************)
(* this.client.initialize().catch(...)                                     *)
(* c, ip, si: this.client, initPending and staleInits when the handler     *)
(* runs (the rejected promise already taken off the books).                *)
(***************************************************************************)
InitCatch(c, ip, si) ==
  CASE variant = "basic" ->
         /\ clientReady' = FALSE
         /\ client' = c /\ initPending' = ip /\ staleInits' = si
         /\ UNCHANGED <<initAttempts, mockMode, timers, intervals, orphans>>
    [] variant = "await" ->
         /\ timers' = BagAdd(timers, TimerInitRetry(InitRetryDelay))
         /\ client' = c /\ initPending' = ip /\ staleInits' = si
         /\ UNCHANGED <<clientReady, initAttempts, mockMode, intervals, orphans>>
    [] variant = "capped" ->
         /\ initAttempts' = initAttempts + 1
         /\ timers' = IF initAttempts + 1 < maxAttempts
                      THEN BagAdd(timers, TimerInitRetry(backoff))
                      ELSE BagAdd(timers, TimerInitReset)
         /\ client' = c /\ initPending' = ip /\ staleInits' = si
         /\ UNCHANGED <<clientReady, mockMode, intervals, orphans>>
    [] variant = "mock" ->
         /\ initAttempts' = initAttempts + 1
         /\ IF initAttempts + 1 < maxAttempts /\ ~mockMode
            THEN /\ timers' = BagAdd(timers, TimerInitRetry(backoff))
                 /\ client' = c /\ initPending' = ip /\ staleInits' = si
                 /\ UNCHANGED <<mockMode, intervals, orphans>>
            ELSE IF ~mockMode
            THEN \* createMockClient(); setupMockEvents(); this.client.initialize()
                 /\ mockMode' = TRUE
                 /\ client' = MockClient
                 /\ orphans' = (orphans \/ (c.live /\ c.subs > 0))
                 /\ initPending' = FALSE
                 /\ staleInits' = si + (IF ip THEN 1 ELSE 0)
                 /\ timers' = BagAdd(timers, TimerMockQr)
                 /\ intervals' = intervals + 1
            ELSE /\ client' = c /\ initPending' = ip /\ staleInits' = si
                 /\ UNCHANGED <<mockMode, timers, intervals, orphans>>
         /\ UNCHANGED clientReady

\* the initialize() promise of the current handle settles
InitResolve ==
  /\ initPending
  /\ initPending' = FALSE
  /\ UNCHANGED <<fetches, served, uncaught>>
  /\ UNCHANGED <<variant, qrCode, restarting, backoff, clientReady, initAttempts,
                 mockMode, client, orphans, staleInits, runs, timers, intervals,
                 encodings, logouts, connects, waState, fails, tokenWindow>>

InitReject ==
  /\ initPending
  /\ Pending < MaxPending
  /\ InitCatch([client EXCEPT !.live = FALSE], FALSE, staleInits)
  /\ UNCHANGED <<fetches, served, uncaught>>
  /\ UNCHANGED <<variant, qrCode, restarting, backoff, runs, encodings, logouts,
                 connects, waState, fails, tokenWindow>>

\* an initialize() promise of an earlier _init settles
StaleInitResolve ==
  /\ staleInits > 0
  /\ staleInits' = staleInits - 1
  /\ UNCHANGED <<fetches, served, uncaught>>
  /\ UNCHANGED <<variant, qrCode, restarting, backoff, clientReady, initAttempts,
                 mockMode, client, orphans, initPending, runs, timers, intervals,
                 encodings, logouts, connects, waState, fails, tokenWindow>>

StaleInitReject ==
  /\ staleInits > 0
  /\ Pending < MaxPending
  /\ InitCatch(client, initPending, staleInits - 1)
  /\ UNCHANGED <<fetches, served, uncaught>>
  /\ UNCHANGED <<variant, qrCode, restarting, backoff, runs, encodings, logouts,
                 connects, waState, fails, tokenWindow>>

\* createClient() and _init() with mockMode following the handle just built
RecreateLeavesMockMode(ok, tm) ==
  LET si == staleInits + (IF initPending THEN 1 ELSE 0)
      orph == (orphans \/ (client.live /\ client.subs > 0))
  IN
  CASE variant = "basic" ->
         /\ client' = [client EXCEPT !.subs = @ + 1, !.live = TRUE]
         /\ initPending' = TRUE /\ staleInits' = si
         /\ timers' = tm
         /\ UNCHANGED <<orphans, mockMode, intervals>>
    [] variant \in {"capped", "await"} ->
         /\ client' = [NewClient EXCEPT !.subs = 1, !.live = TRUE]
         /\ initPending' = TRUE /\ staleInits' = si
         /\ orphans' = orph
         /\ timers' = tm
         /\ UNCHANGED <<mockMode, intervals>>
    [] variant = "mock" ->
         LET mm == ~ok
             c == IF ok THEN NewClient ELSE MockClient
         IN /\ mockMode' = mm
            /\ orphans' = orph
            /\ staleInits' = si
            /\ IF mm
               THEN \* setupMockEvents() subscribes nothing on the handle
                    /\ client' = IF c.mock THEN c ELSE [c EXCEPT !.live = TRUE]
                    /\ initPending' = ~c.mock
                    /\ timers' = BagAdd(tm, TimerMockQr)
                    /\ intervals' = intervals + 1
               ELSE /\ client' = [c EXCEPT !.subs = 1, !.live = TRUE]
                    /\ initPending' = TRUE
                    /\ timers' = tm
                    /\ UNCHANGED intervals

(***************************************************************************)
(* createClient() followed by _init(), as restart() runs them.             *)
(* ok: new Client(...) did not throw.  tm: the timers pending at the call. *)
(* "basic" has no createClient: _init() subscribes again on the same       *)
(* handle and initializes it again.                                        *)
(***************************************************************************)
Recreate(ok, tm) ==
  LET si == staleInits + (IF initPending THEN 1 ELSE 0)
      orph == (orphans \/ (client.live /\ client.subs > 0))
  IN
  CASE variant = "basic" ->
         /\ client' = [client EXCEPT !.subs = @ + 1, !.live = TRUE]
         /\ initPending' = TRUE /\ staleInits' = si
         /\ timers' = tm
         /\ UNCHANGED <<orphans, mockMode, intervals>>
    [] variant \in {"capped", "await"} ->
         /\ client' = [NewClient EXCEPT !.subs = 1, !.live = TRUE]
         /\ initPending' = TRUE /\ staleInits' = si
         /\ orphans' = orph
         /\ timers' = tm
         /\ UNCHANGED <<mockMode, intervals>>
    [] variant = "mock" ->
         LET mm == (mockMode \/ ~ok)
             c == IF ok THEN NewClient ELSE MockClient
         IN /\ mockMode' = mm
            /\ orphans' = orph
            /\ staleInits' = si
            /\ IF mm
               THEN \* setupMockEvents() subscribes nothing on the handle
                    /\ client' = IF c.mock THEN c ELSE [c EXCEPT !.live = TRUE]
                    /\ initPending' = ~c.mock
                    /\ timers' = BagAdd(tm, TimerMockQr)
                    /\ intervals' = intervals + 1
               ELSE /\ client' = [c EXCEPT !.subs = 1, !.live = TRUE]
                    /\ initPending' = TRUE
                    /\ timers' = tm
                    /\ UNCHANGED intervals

\* the catch block of restart(): this.backoff = Math.min(this.backoff * 2, 60000)
NextBackoffUncapped(b) == b * 2

\* the catch block with the backoff halved instead of doubled
NextBackoffHalved(b) == Min(b \div 2, BackoffCap)

NextBackoff(b) == Min(b * 2, BackoffCap)

\* what fsp.rm(sessionPath, {recursive, force, ...}) can do; with force an
\* absent path is no error
RmOutcomes == {"removed", "absent", "failed"}

\* removeSession() without its try/catch
removeSessionNoCatch(rm) == IF rm = "failed" THEN "rejected" ELSE "resolved"

\* removeSession(): the rejection of fsp.rm is caught and logged
removeSession(rm) ==
  CASE rm = "failed" -> "resolved"
    [] OTHER -> "resolved"

\* what the browser process does while waitForBrowserClose() runs: it emits
\* close, it emits nothing before timeoutMs, there is no process, or asking
\* for the process throws
WaitOutcomes == {"close", "timeout", "noProcess", "throws"}

\* waitForBrowserClose() with neither the timeout in the race nor the
\* try/catch
waitForBrowserCloseBare(w) ==
  CASE w = "timeout" -> "pending"
    [] w = "throws" -> "rejected"
    [] OTHER -> "resolved"

\* waitForBrowserClose(): `if (!proc) return`, the race of close against the
\* timeout, and the catch block that logs
waitForBrowserClose(w) ==
  CASE w = "noProcess" -> "resolved"
    [] w = "close" -> "resolved"
    [] w = "timeout" -> "resolved"
    [] w = "throws" -> "resolved"

\* logout() invocations awaiting the promise of restart() resume
Resumed(lg) == lg (-) [x \in {"restart"} |-> CopiesIn("restart", lg)]

(***************************************************************************)
(* restart(): the steps after the guard                                    *)
(***************************************************************************)
\* destroy() settles, with a rejection taken to the catch block of restart()
DestroySettleFatal(ok) ==
  /\ BagIn("destroy", runs)
  /\ IF ok
     THEN /\ runs' = BagAdd(BagRemove(runs, "destroy"),
                            IF variant \in {"basic", "await"} THEN "waitClose"
                            ELSE "removeSession")
          /\ client' = IF ~client.mock THEN [client EXCEPT !.live = FALSE] ELSE client
          /\ UNCHANGED <<restarting, backoff, timers, logouts>>
     ELSE /\ Pending < MaxPending
          /\ runs' = BagRemove(runs, "destroy")
          /\ restarting' = FALSE
          /\ backoff' = Min(backoff * 2, BackoffCap)
          /\ timers' = BagAdd(timers, TimerRetry(Min(backoff * 2, BackoffCap)))
          /\ logouts' = Resumed(logouts)
          /\ UNCHANGED client
  /\ UNCHANGED <<fetches, served, uncaught>>
  /\ UNCHANGED <<variant, qrCode, clientReady, initAttempts, mockMode, orphans,
                 initPending, staleInits, intervals, encodings, connects, waState,
                 fails, tokenWindow>>

\* await this.client.destroy() settles; a rejection is logged and ignored
DestroySettle(ok) ==
  /\ BagIn("destroy", runs)
  /\ runs' = BagAdd(BagRemove(runs, "destroy"),
                    IF variant \in {"basic", "await"} THEN "waitClose"
                    ELSE "removeSession")
  /\ client' = IF ok /\ ~client.mock THEN [client EXCEPT !.live = FALSE] ELSE client
  /\ UNCHANGED <<fetches, served, uncaught>>
  /\ UNCHANGED <<variant, qrCode, restarting, backoff, clientReady, initAttempts,
                 mockMode, orphans, initPending, staleInits, timers, intervals,
                 encodings, logouts, connects, waState, fails, tokenWindow>>

\* await this.waitForBrowserClose() settles; w: what the browser process
\* did.  A rejection would be taken to the catch block of restart(), and a
\* wait that stays pending leaves the sequence where it is.
WaitCloseSettle ==
  /\ BagIn("waitClose", runs)
  /\ \E w \in WaitOutcomes :
       CASE waitForBrowserClose(w) = "resolved" ->
              /\ runs' = BagAdd(BagRemove(runs, "waitClose"), "removeSession")
              /\ UNCHANGED <<restarting, backoff, timers, logouts, fails>>
         [] waitForBrowserClose(w) = "rejected" ->
              /\ Pending < MaxPending
              /\ runs' = BagRemove(runs, "waitClose")
              /\ logouts' = Resumed(logouts)
              /\ restarting' = FALSE
              /\ backoff' = NextBackoff(backoff)
              /\ timers' = BagAdd(timers, TimerRetry(NextBackoff(backoff)))
              /\ fails' = Min(fails + 1, CapDoublings)
         [] waitForBrowserClose(w) = "pending" ->
              UNCHANGED <<runs, restarting, backoff, timers, logouts, fails>>
  /\ UNCHANGED <<fetches, served, uncaught>>
  /\ UNCHANGED <<variant, qrCode, clientReady, initAttempts, mockMode, client,
                 orphans, initPending, staleInits, intervals, encodings, connects,
                 waState, tokenWindow>>

\* removeSession() settles and the rebuild follows at once, with no backoff
\* wait in between
RemoveSessionSettleNoWait ==
  /\ BagIn("removeSession", runs)
  /\ runs' = BagRemove(runs, "removeSession")
  /\ logouts' = Resumed(logouts)
  /\ Recreate(TRUE, timers)
  /\ restarting' = FALSE
  /\ UNCHANGED <<fetches, served, uncaught>>
  /\ UNCHANGED <<variant, qrCode, backoff, clientReady, initAttempts, encodings,
                 connects, waState, fails, tokenWindow>>

\* await this.removeSession() settles; rm: what fsp.rm did.  Then "await"
\* waits for the backoff and the others schedule the rebuild and return; a
\* rejection would be taken to the catch block of restart().
RemoveSessionSettle ==
  /\ BagIn("removeSession", runs)
  /\ \E rm \in RmOutcomes :
       IF removeSession(rm) = "resolved"
       THEN /\ IF variant = "await"
               THEN /\ runs' = BagAdd(BagRemove(runs, "removeSession"), "backoffWait")
                    /\ UNCHANGED <<timers, logouts>>
               ELSE /\ runs' = BagRemove(runs, "removeSession")
                    /\ timers' = BagAdd(timers, TimerRebuild(backoff))
                    /\ logouts' = Resumed(logouts)
            /\ UNCHANGED <<restarting, backoff, fails>>
       ELSE /\ Pending < MaxPending
            /\ runs' = BagRemove(runs, "removeSession")
            /\ logouts' = Resumed(logouts)
            /\ restarting' = FALSE
            /\ backoff' = IF variant \in {"basic", "await"}
                          THEN NextBackoff(backoff) ELSE backoff
            /\ timers' = BagAdd(timers, TimerRetry(NextBackoff(backoff)))
            /\ fails' = IF variant \in {"basic", "await"}
                        THEN Min(fails + 1, CapDoublings) ELSE fails
  /\ UNCHANGED <<fetches, served, uncaught>>
  /\ UNCHANGED <<variant, qrCode, clientReady, initAttempts, mockMode, client,
                 orphans, initPending, staleInits, intervals, encodings, connects,
                 waState, tokenWindow>>

\* "await": the backoff wait is over; createClient(), _init(), and the end of
\* the try block, or the catch block when createClient() threw
BackoffElapsed(ok) ==
  /\ variant = "await"
  /\ BagIn("backoffWait", runs)
  /\ runs' = BagRemove(runs, "backoffWait")
  /\ logouts' = Resumed(logouts)
  /\ restarting' = FALSE
  /\ IF ok
     THEN /\ Recreate(TRUE, timers)
          /\ backoff' = InitialBackoff
          /\ fails' = 0
     ELSE /\ Pending < MaxPending
          /\ backoff' = NextBackoff(backoff)
          /\ timers' = BagAdd(timers, TimerRetry(NextBackoff(backoff)))
          /\ fails' = Min(fails + 1, CapDoublings)
          /\ UNCHANGED <<client, orphans, initPending, staleInits, mockMode, intervals>>
  /\ UNCHANGED <<fetches, served, uncaught>>
  /\ UNCHANGED <<variant, qrCode, clientReady, initAttempts, encodings, connects,
                 waState, tokenWindow>>

(***************************************************************************)
(* Timer callbacks                                                         *)
(***************************************************************************)
\* the setTimeout callback of restart() in "basic", "capped" and "mock";
\* ok: createClient() did not throw.  In "capped" a throwing createClient()
\* ends the callback: nothing after it runs.
RebuildFire(ok) ==
  LET t == TimerRebuild(backoff)
  IN /\ BagIn(t, timers)
     /\ CASE variant = "basic" ->
               /\ ok
               /\ Recreate(TRUE, BagRemove(timers, t))
               /\ restarting' = FALSE
               /\ backoff' = InitialBackoff
               /\ clientReady' = FALSE
               /\ fails' = 0
               /\ UNCHANGED uncaught
          [] variant = "capped" ->
               IF ok
               THEN /\ Recreate(TRUE, BagRemove(timers, t))
                    /\ restarting' = FALSE
                    /\ UNCHANGED <<backoff, clientReady, fails, uncaught>>
               ELSE /\ timers' = BagRemove(timers, t)
                    /\ uncaught' = TRUE
                    /\ UNCHANGED <<restarting, backoff, clientReady, fails, client,
                                   orphans, initPending, staleInits, mockMode, intervals>>
          [] variant = "mock" ->
               /\ Recreate(ok, BagRemove(timers, t))
               /\ restarting' = FALSE
               /\ UNCHANGED <<backoff, clientReady, fails, uncaught>>
     /\ UNCHANGED <<fetches, served>>
     /\ UNCHANGED <<variant, qrCode, initAttempts, runs, encodings, logouts, connects,
                    waState, tokenWindow>>

\* a retry callback that doubles the backoff before it calls restart()
RetryFireDoubles(t) ==
  /\ BagIn(t, timers)
  /\ t.kind \in {"retry", "initRetry", "initReset"}
  /\ restarting \/ Budget
  /\ timers' = BagRemove(timers, t)
  /\ initAttempts' = IF t.kind = "initReset" THEN 0 ELSE initAttempts
  /\ backoff' = NextBackoff(backoff)
  /\ restart(clientReady)
  /\ UNCHANGED <<fetches, served, uncaught>>
  /\ UNCHANGED <<variant, qrCode, mockMode, client, orphans, initPending,
                 staleInits, intervals, encodings, logouts, connects, waState, fails,
                 tokenWindow>>

\* setTimeout(() => this.restart(), ...): after a failed restart ("retry"),
\* after a rejected initialize() ("initRetry"), and the 30 s callback of
\* "capped" that first resets initAttempts ("initReset")
RetryFire(t) ==
  /\ BagIn(t, timers)
  /\ t.kind \in {"retry", "initRetry", "initReset"}
  /\ restarting \/ Budget
  /\ timers' = BagRemove(timers, t)
  /\ initAttempts' = IF t.kind = "initReset" THEN 0 ELSE initAttempts
  /\ restart(clientReady)
  /\ UNCHANGED <<fetches, served, uncaught>>
  /\ UNCHANGED <<variant, qrCode, backoff, mockMode, client, orphans, initPending,
                 staleInits, intervals, encodings, logouts, connects, waState, fails,
                 tokenWindow>>

\* setupMockEvents(): the 2 s timer that encodes a mock token
MockQrFire ==
  /\ BagIn(TimerMockQr, timers)
  /\ Pending < MaxPending
  /\ timers' = BagRemove(timers, TimerMockQr)
  /\ encodings' = BagAdd(encodings, MockQrData)
  /\ UNCHANGED <<fetches, served, uncaught>>
  /\ UNCHANGED <<variant, qrCode, restarting, backoff, clientReady, initAttempts,
                 mockMode, client, orphans, initPending, staleInits, runs, intervals,
                 logouts, connects, waState, fails, tokenWindow>>

\* setupMockEvents(): a tick of the 20 s interval
IntervalTick ==
  /\ intervals > 0
  /\ mockMode /\ ~clientReady
  /\ Pending < MaxPending
  /\ encodings' = BagAdd(encodings, MockQrData)
  /\ UNCHANGED <<fetches, served, uncaught>>
  /\ UNCHANGED <<variant, qrCode, restarting, backoff, clientReady, initAttempts,
                 mockMode, client, orphans, initPending, staleInits, runs, timers,
                 intervals, logouts, connects, waState, fails, tokenWindow>>

(***************************************************************************)
(* The facade: POST /debug/force-restart, GET /logout, GET /qr             *)
(***************************************************************************)
ForceRestart ==
  /\ restarting \/ Budget
  /\ restart(clientReady)
  /\ UNCHANGED <<fetches, served, uncaught>>
  /\ UNCHANGED <<variant, qrCode, backoff, initAttempts, mockMode, client, orphans,
                 initPending, staleInits, timers, intervals, encodings, logouts,
                 connects, waState, fails, tokenWindow>>

\* `await this.restart()` inside logout(); lg: the other logout() invocations.
\* A dropped restart() resolves at once and logout() returns.
logoutRestart(lg, rdy) ==
  /\ restart(rdy)
  /\ logouts' = IF restarting THEN lg ELSE BagAdd(lg, "restart")

\* logout() up to its first await
LogoutCall ==
  /\ Pending < MaxPending
  /\ restarting \/ Budget
  /\ IF variant = "basic"
     THEN /\ IF client # NoClient /\ clientReady
             THEN /\ logouts' = BagAdd(logouts, "clientLogout")
                  /\ UNCHANGED <<restarting, clientReady, runs>>
             ELSE logoutRestart(logouts, clientReady)
          /\ UNCHANGED qrCode
     ELSE /\ clientReady' = FALSE
          /\ qrCode' = NULL
          /\ logouts' = BagAdd(logouts,
                 IF client # NoClient /\ ~(variant = "mock" /\ mockMode)
                 THEN "clientLogout" ELSE "removeSession")
          /\ UNCHANGED <<restarting, runs>>
  /\ UNCHANGED <<fetches, served, uncaught>>
  /\ UNCHANGED <<variant, backoff, initAttempts, mockMode, client, orphans,
                 initPending, staleInits, timers, intervals, encodings, connects,
                 waState, fails, tokenWindow>>

\* logout() whose catch block only logs the rejection of client.logout()
LogoutSettleNoRestartInCatch(ok) ==
  /\ BagIn("clientLogout", logouts)
  /\ restarting \/ Budget
  /\ IF ok
     THEN IF variant = "basic"
          THEN logoutRestart(BagRemove(logouts, "clientLogout"), clientReady)
          ELSE /\ logouts' = BagAdd(BagRemove(logouts, "clientLogout"), "removeSession")
               /\ UNCHANGED <<restarting, clientReady, runs>>
     ELSE /\ logouts' = BagRemove(logouts, "clientLogout")
          /\ UNCHANGED <<restarting, clientReady, runs>>
  /\ UNCHANGED <<fetches, served, uncaught>>
  /\ UNCHANGED <<variant, qrCode, backoff, initAttempts, mockMode, client, orphans,
                 initPending, staleInits, timers, intervals, encodings, connects,
                 waState, fails, tokenWindow>>

\* await this.client.logout() settles.  "basic" catches a rejection and goes
\* on to restart(); the others go on to removeSession(), or on a rejection
\* to the catch block, which calls restart()
LogoutSettle(ok) ==
  /\ BagIn("clientLogout", logouts)
  /\ restarting \/ Budget
  /\ IF variant = "basic" \/ ~ok
     THEN logoutRestart(BagRemove(logouts, "clientLogout"), clientReady)
     ELSE /\ logouts' = BagAdd(BagRemove(logouts, "clientLogout"), "removeSession")
          /\ UNCHANGED <<restarting, clientReady, runs>>
  /\ UNCHANGED <<fetches, served, uncaught>>
  /\ UNCHANGED <<variant, qrCode, backoff, initAttempts, mockMode, client, orphans,
                 initPending, staleInits, timers, intervals, encodings, connects,
                 waState, fails, tokenWindow>>

\* await this.removeSession() inside logout() settles
LogoutRemoveSettle ==
  /\ BagIn("removeSession", logouts)
  /\ restarting \/ Budget
  /\ logoutRestart(BagRemove(logouts, "removeSession"), clientReady)
  /\ UNCHANGED <<fetches, served, uncaught>>
  /\ UNCHANGED <<variant, qrCode, backoff, initAttempts, mockMode, client, orphans,
                 initPending, staleInits, timers, intervals, encodings, connects,
                 waState, fails, tokenWindow>>

(***************************************************************************)
(* isConnected()                                                           *)
(***************************************************************************)
\* what client.getState() can do: resolve to a state, or reject
GetStateOutcomes == {"CONNECTED", "OPENING", "TIMEOUT", "rejects"}

\* the check before the await: the call returns false without asking the client
isConnectedEarly(c, rdy) ==
  (variant = "mock" /\ mockMode) \/ c = NoClient \/ ~rdy

\* isConnected() without its try/catch
isConnectedValueNoCatch(out) ==
  IF out = "rejects" THEN "rejected"
  ELSE IF out = "CONNECTED" THEN "true" ELSE "false"

\* what the call resolves to once getState() settled
isConnectedValue(out) ==
  IF out = "rejects" THEN "false"
  ELSE IF out = "CONNECTED" THEN "true" ELSE "false"

NoAnswer == [value |-> "none", ready |-> FALSE, state |-> "notCalled"]

IsConnectedCall ==
  /\ Pending < MaxPending
  /\ IF isConnectedEarly(client, clientReady)
     THEN /\ waState' = [value |-> "false", ready |-> FALSE, state |-> "notCalled"]
          /\ UNCHANGED connects
     ELSE /\ connects' = connects + 1
          /\ UNCHANGED waState
  /\ UNCHANGED <<fetches, served, uncaught>>
  /\ UNCHANGED <<variant, qrCode, restarting, backoff, clientReady, initAttempts,
                 mockMode, client, orphans, initPending, staleInits, runs, timers,
                 intervals, encodings, logouts, fails, tokenWindow>>

IsConnectedSettle(out) ==
  /\ connects > 0
  /\ connects' = connects - 1
  /\ waState' = [value |-> isConnectedValue(out), ready |-> TRUE, state |-> out]
  /\ UNCHANGED <<fetches, served, uncaught>>
  /\ UNCHANGED <<variant, qrCode, restarting, backoff, clientReady, initAttempts,
                 mockMode, client, orphans, initPending, staleInits, runs, timers,
                 intervals, encodings, logouts, fails, tokenWindow>>

(***************************************************************************)
(* The facade's send-file, conversations and clear-session routes.  The    *)
(* three facades differ in what they test before they use the handle:      *)
(* "blind" nothing, "flag" waService.clientReady, "query"                  *)
(* waService.isClientReady().  Requests are well-formed.                   *)
(***************************************************************************)
Facades == {"blind", "flag", "query"}

\* what the handle's sendMessage() and getChats() can do
HandleOutcomes == {"resolved", "empty", "rejected"}

\* the mock handle: sendMessage() rejects with 'Mock client - browser
\* unavailable', getChats() resolves to an empty list
MockSendMessage == "unavailable"
MockGetChats == "empty"

NotServed ==
  [op |-> "none", invoked |-> FALSE, ready |-> FALSE, live |-> FALSE,
   sequence |-> FALSE, handle |-> "none", result |-> "none", http |-> 0]

\* the answer of a route that did not use the handle
Refused(op, code) ==
  [NotServed EXCEPT !.op = op, !.http = code]

\* the answer of a route that called the handle, which did res: ready is
\* what isClientReady() would have answered at the call
Invoked(op, res, code) ==
  [NotServed EXCEPT !.op = op, !.invoked = TRUE, !.ready = isClientReady,
                    !.handle = IF client.mock THEN "mock" ELSE "real",
                    !.result = res, !.http = code]

\* the answer of the route that removed the session directory: live tells
\* whether this.client was initializing or Ready, sequence whether a
\* restart() or a logout() was running
Removed(code) ==
  [NotServed EXCEPT !.op = "clearSession", !.live = client.live,
                    !.sequence = (restarting \/ logouts # EmptyBag),
                    !.result = "resolved", !.http = code]

\* the test at the top of the route: "pass", "notReady" (HTTP 400), or
\* "throws" when the class has no isClientReady method (caught: HTTP 500)
FacadeCheck(f) ==
  CASE f = "blind" -> "pass"
    [] f = "flag" -> IF clientReady THEN "pass" ELSE "notReady"
    [] f = "query" -> IF variant = "basic" THEN "throws"
                      ELSE IF isClientReady THEN "pass" ELSE "notReady"

\* POST /send-file up to `await MessageMedia.fromUrl(...)`
SendFileCall(f) ==
  /\ Pending + fetches < MaxPending
  /\ CASE FacadeCheck(f) = "pass" ->
            /\ fetches' = fetches + 1
            /\ UNCHANGED served
       [] FacadeCheck(f) = "notReady" ->
            /\ served' = Refused("send", 400)
            /\ UNCHANGED fetches
       [] FacadeCheck(f) = "throws" ->
            /\ served' = Refused("send", 500)
            /\ UNCHANGED fetches
  /\ UNCHANGED <<variant, qrCode, restarting, backoff, clientReady, initAttempts,
                 mockMode, client, orphans, initPending, staleInits, runs, timers,
                 intervals, encodings, logouts, connects, waState, fails,
                 tokenWindow, uncaught>>

\* POST /send-file after the download: waService.client.sendMessage(...) and
\* the response, the same in the three facades; ok: fromUrl resolved; out:
\* what a real handle does
SendFileFetched(ok, out) ==
  LET res == IF client.mock THEN MockSendMessage ELSE out
  IN /\ fetches > 0
     /\ out # "empty"
     /\ fetches' = fetches - 1
     /\ served' = IF ~ok THEN Refused("send", 500)
                  ELSE Invoked("send", res, IF res = "resolved" THEN 200 ELSE 500)
     /\ UNCHANGED <<variant, qrCode, restarting, backoff, clientReady, initAttempts,
                    mockMode, client, orphans, initPending, staleInits, runs, timers,
                    intervals, encodings, logouts, connects, waState, fails,
                    tokenWindow, uncaught>>

\* GET /conversations: waService.client.getChats(), chat[0].fetchMessages()
\* and the response.  An empty list makes chat[0] undefined: "blind" and
\* "flag" answer 500 from their catch block, "query" answers 200 with [].
Conversations(f, out) ==
  LET res == IF client.mock THEN MockGetChats ELSE out
      code == CASE res = "resolved" -> 200
                [] res = "rejected" -> 500
                [] res = "empty" -> IF f = "query" THEN 200 ELSE 500
  IN /\ served' = CASE FacadeCheck(f) = "pass" -> Invoked("list", res, code)
                    [] FacadeCheck(f) = "notReady" -> Refused("list", 400)
                    [] FacadeCheck(f) = "throws" -> Refused("list", 500)
     /\ UNCHANGED <<variant, qrCode, restarting, backoff, clientReady, initAttempts,
                    mockMode, client, orphans, initPending, staleInits, runs, timers,
                    intervals, encodings, logouts, connects, waState, fails,
                    tokenWindow, fetches, uncaught>>

\* POST /debug/clear-session ("query" facade): await waService.removeSession()
ClearSession ==
  /\ served' = Removed(200)
  /\ UNCHANGED <<variant, qrCode, restarting, backoff, clientReady, initAttempts,
                 mockMode, client, orphans, initPending, staleInits, runs, timers,
                 intervals, encodings, logouts, connects, waState, fails,
                 tokenWindow, fetches, uncaught>>

(***************************************************************************)
(* The state after the constructor: createClient() and _init() have run.   *)
(* In "mock" the constructor may already have fallen back to the mock      *)
(* client.                                                                 *)
(***************************************************************************)
Init ==
  /\ variant \in Variants
  /\ qrCode = NULL
  /\ restarting = FALSE
  /\ backoff = InitialBackoff
  /\ clientReady = FALSE
  /\ initAttempts = 0
  /\ mockMode \in (IF variant = "mock" THEN BOOLEAN ELSE {FALSE})
  /\ client = IF mockMode THEN MockClient
              ELSE [NewClient EXCEPT !.subs = 1, !.live = TRUE]
  /\ orphans = FALSE
  /\ initPending = ~mockMode
  /\ staleInits = 0
  /\ runs = EmptyBag
  /\ timers = IF mockMode THEN SetToBag({TimerMockQr}) ELSE EmptyBag
  /\ intervals = IF mockMode THEN 1 ELSE 0
  /\ encodings = EmptyBag
  /\ logouts = EmptyBag
  /\ connects = 0
  /\ waState = NoAnswer
  /\ fails = 0
  /\ tokenWindow = FALSE
  /\ fetches = 0
  /\ served = NotServed
  /\ uncaught = FALSE

Next ==
  \/ \E src \in {"cur", "old"}, qr \in QrStrings : OnQr(src, qr)
  \/ \E qr \in QrStrings \cup {MockQrData} : EncodeDone(qr)
  \/ \E src \in {"cur", "old"} : OnReady(src)
  \/ \E src \in {"cur", "old"} : OnAuthenticated(src)
  \/ \E src \in {"cur", "old"} : OnAuthFailure(src)
  \/ \E src \in {"cur", "old"} : OnDisconnected(src)
  \/ \E src \in {"cur", "old"} : OnError(src)
  \/ InitResolve
  \/ InitReject
  \/ StaleInitResolve
  \/ StaleInitReject
  \/ \E ok \in BOOLEAN : DestroySettle(ok)
  \/ WaitCloseSettle
  \/ RemoveSessionSettle
  \/ \E ok \in BOOLEAN : BackoffElapsed(ok)
  \/ \E ok \in BOOLEAN : RebuildFire(ok)
  \/ \E t \in DOMAIN timers : RetryFire(t)
  \/ MockQrFire
  \/ IntervalTick
  \/ ForceRestart
  \/ LogoutCall
  \/ \E ok \in BOOLEAN : LogoutSettle(ok)
  \/ LogoutRemoveSettle

Spec == Init /\ [][Next]_vars

\* The manager under the events, promises and timers that move clientReady,
\* this.client and mockMode, with GET /status calling isConnected().
NextConn ==
  \/ \E src \in {"cur", "old"} : OnReady(src)
  \/ \E src \in {"cur", "old"} : OnAuthFailure(src)
  \/ \E src \in {"cur", "old"} : OnDisconnected(src)
  \/ \E src \in {"cur", "old"} : OnError(src)
  \/ InitResolve
  \/ InitReject
  \/ StaleInitResolve
  \/ StaleInitReject
  \/ \E ok \in BOOLEAN : DestroySettle(ok)
  \/ WaitCloseSettle
  \/ RemoveSessionSettle
  \/ \E ok \in BOOLEAN : BackoffElapsed(ok)
  \/ \E ok \in BOOLEAN : RebuildFire(ok)
  \/ \E t \in DOMAIN timers : RetryFire(t)
  \/ IsConnectedCall
  \/ \E out \in GetStateOutcomes : IsConnectedSettle(out)

SpecConn == Init /\ [][NextConn]_vars

\* The manager under the events, promises and timers that move clientReady,
\* restarting, this.client and mockMode, with the facade's routes that use
\* the handle or the session directory.
NextFacade ==
  \/ \E src \in {"cur", "old"} : OnReady(src)
  \/ \E src \in {"cur", "old"} : OnDisconnected(src)
  \/ InitReject
  \/ \E ok \in BOOLEAN : DestroySettle(ok)
  \/ WaitCloseSettle
  \/ RemoveSessionSettle
  \/ \E ok \in BOOLEAN : BackoffElapsed(ok)
  \/ \E ok \in BOOLEAN : RebuildFire(ok)
  \/ \E t \in DOMAIN timers : RetryFire(t)
  \/ \E f \in Facades : SendFileCall(f)
  \/ \E ok \in BOOLEAN, out \in HandleOutcomes : SendFileFetched(ok, out)
  \/ \E f \in Facades, out \in HandleOutcomes : Conversations(f, out)
  \/ ClearSession

SpecFacade == Init /\ [][NextFacade]_vars

(***************************************************************************)
(* Properties                                                              *)
(***************************************************************************)
\* restart sequences past the guard that have not finished: an invocation at
\* an await, or a scheduled rebuild callback
ActiveRestarts ==
  BagCardinality(runs)
    + BagCardinality([t \in {x \in DOMAIN timers : x.kind = "rebuild"} |-> timers[t]])

\* C1: whatever disconnected events, restart() calls, logout() calls and
\* retry timers interleave, at most one restart sequence is past the guard
\* and unfinished, and while one is, restarting is set (so every further
\* restart() call returns at its first line).
C1_OneRestartAtATime ==
  /\ ActiveRestarts <= 1
  /\ ActiveRestarts = 1 => restarting

\* a restart sequence is at its removeSession() while a retry timer and a
\* logout() are waiting to call restart()
C1_Witness ==
  /\ BagIn("removeSession", runs)
  /\ PendingRetries > 0
  /\ BagCardinality(logouts) > 0

\* C2 (as claimed): in "basic" and "await" a token is stored only between a
\* qr event and the next ready event, whatever the order of the
\* toDataURL callback and the ready event.
C2_TokenOnlyInWindow ==
  variant \in {"basic", "await"} => (qrCode # NULL => tokenWindow)

\* C3: in "basic" and "await", after N restart sequences in a row that ended
\* in the catch block the backoff is min(2000 * 2^N, 60000), and after a
\* sequence that completed it is 2000 (N = 0) again.
C3_BackoffFormula ==
  variant \in {"basic", "await"} =>
    backoff = Min(InitialBackoff * Pow2(fails), BackoffCap)

\* the backoff has reached its cap after CapDoublings failed sequences
C3_Witness ==
  variant = "await" /\ fails = CapDoublings /\ backoff = BackoffCap

\* a step in which a logout() invocation calls restart()
LogoutBeforeRestart(lg) == CopiesIn("clientLogout", lg) + CopiesIn("removeSession", lg)

LogoutCallsRestart ==
  \/ /\ LogoutBeforeRestart(logouts') < LogoutBeforeRestart(logouts)
     /\ CopiesIn("removeSession", logouts') <= CopiesIn("removeSession", logouts)
  \/ CopiesIn("restart", logouts') > CopiesIn("restart", logouts)

\* C4 (as claimed): every logout() starts a new restart sequence.
C4_LogoutStartsNewRestart ==
  [][LogoutCallsRestart => BagCardinality(runs') = BagCardinality(runs) + 1]_vars

\* C4 (amended): every logout() calls restart(), also when client.logout()
\* rejected; after the call restarting is set, and the call starts a new
\* restart sequence exactly when restarting was not set before it.
C4_LogoutCallsRestart ==
  [][LogoutCallsRestart =>
       /\ restarting'
       /\ ~restarting => BagCardinality(runs') = BagCardinality(runs) + 1
       /\ restarting => runs' = runs]_vars

\* a logout() awaits the restart sequence it started
C4_Witness == BagIn("restart", logouts) /\ restarting /\ ActiveRestarts = 1

C8_RestartNeverStuck == restarting => ActiveRestarts > 0

\* the delays of the retry timers a step schedules after a rejected initialize()
InitRetryScheduled ==
  {t.delay : t \in {x \in DOMAIN timers' :
                      /\ x.kind = "initRetry"
                      /\ CopiesIn(x, timers') > CopiesIn(x, timers)}}

\* C9 (as claimed): every retry scheduled after a rejected initialize() waits
\* for the current backoff, and the backoff is doubled (up to the cap) for
\* the next one: from 2000 this gives the delays 2000, 4000, 8000.
C9_InitRetryBacksOff ==
  [][(variant \in {"capped", "await"}) =>
       (\A d \in InitRetryScheduled :
           d = backoff /\ backoff' = Min(backoff * 2, BackoffCap))]_vars

\* C10 (as claimed): in the classes that replace the handle on restart,
\* clientReady implies that this.client is a handle that has emitted ready
\* since it was created.
C10_ReadyImpliesHandleReady ==
  variant \in {"capped", "await"} =>
    (clientReady => (client # NoClient /\ client.ready))

\* the toDataURL callback of a call made with one of the strings in S runs
EncodingOf(S) ==
  \E qr \in S : BagIn(qr, encodings) /\ encodings' = BagRemove(encodings, qr)

\* a ready or an authenticated event is handled
ReadyOrAuthenticated ==
  \E src \in {"cur", "old"} : OnReady(src) \/ OnAuthenticated(src)

\* C11 (as claimed): qrCode goes from null to non-null only in the callback
\* of an encoding started by a qr event of the client, and it is null right
\* after every ready and every authenticated event.
C11_TokenOnlyFromQrEvent ==
  [][/\ (qrCode = NULL /\ qrCode' # NULL) => EncodingOf(QrStrings)
     /\ ReadyOrAuthenticated => qrCode' = NULL]_vars

\* C11 (amended): ... started by a qr event of the client or, in mock mode,
\* by the mock token timer or interval of setupMockEvents().
C11_TokenOnlyFromQrEventOrMockTimer ==
  [][/\ (qrCode = NULL /\ qrCode' # NULL) =>
          \/ EncodingOf(QrStrings)
          \/ variant = "mock" /\ mockMode /\ EncodingOf({MockQrData})
     /\ ReadyOrAuthenticated => qrCode' = NULL]_vars

\* a token is stored after a qr event and no encoding is pending
C11_Witness == qrCode # NULL /\ tokenWindow /\ encodings = EmptyBag

\* pending timers of the catch block of restart()
RetryTimers(tm) ==
  BagCardinality([t \in {x \in DOMAIN tm : x.kind = "retry"} |-> tm[t]])

\* a restart sequence ends in its catch block: a retry is scheduled
RestartFails == RetryTimers(timers') > RetryTimers(timers)

\* a restart sequence ends without error: restarting is cleared, the new
\* initialize() is under way and no retry is scheduled
RestartCompletes ==
  /\ restarting /\ ~restarting'
  /\ initPending'
  /\ ~RestartFails

\* C12: backoff stays within 2000..60000; the end of a failed restart
\* sequence never lowers it; it goes down only to 2000 and only in the step
\* that ends a restart sequence without error.
C12_BackoffMonotone ==
  /\ [](backoff >= InitialBackoff /\ backoff <= BackoffCap)
  /\ [][/\ RestartFails => backoff' >= backoff
        /\ backoff' < backoff => (backoff' = InitialBackoff /\ RestartCompletes)]_vars

\* after failed sequences (backoff above 2000) another sequence is at its
\* backoff wait, about to complete or to fail again
C12_Witness ==
  variant = "await" /\ backoff > InitialBackoff /\ BagIn("backoffWait", runs)

\* the catch handler of a rejected initialize() runs
InitRejected == InitReject \/ StaleInitReject

\* C13 (as claimed): a rejected initialize() always leads to a restart
\* sequence: when its catch handler has run, a restart sequence is in flight
\* or a timer that will call restart() is pending.
C13_InitRejectionStartsRestart ==
  [][InitRejected => (restarting' \/ PendingRetries' > 0)]_vars

\* a disconnected event is handled
DisconnectedHandled == \E src \in {"cur", "old"} : OnDisconnected(src)

\* the rebuild of a restart sequence is due: its timer callback runs, or
\* ("await") its backoff wait is over
RebuildDue ==
  \/ \E d \in {InitialBackoff, BackoffCap} \cup {backoff} :
        CopiesIn(TimerRebuild(d), timers') < CopiesIn(TimerRebuild(d), timers)
  \/ CopiesIn("backoffWait", runs') < CopiesIn("backoffWait", runs)

\* C14 (as claimed, in the form a finite run refutes): a disconnected event
\* handled while restarting is false sets restarting, clears clientReady and
\* starts a restart sequence; and when the rebuild of a sequence is due the
\* client is rebuilt (a new initialize() is under way and restarting is
\* cleared) or a retry is scheduled.
C14_DisconnectedRestartsAndRebuilds ==
  [][/\ (DisconnectedHandled /\ ~restarting) =>
          /\ restarting' /\ ~clientReady'
          /\ BagCardinality(runs') = BagCardinality(runs) + 1
     /\ (variant # "mock" /\ RebuildDue) =>
          ((~restarting' /\ initPending') \/ RestartFails)]_vars

\* C15: the send-file and conversations routes never call sendMessage() or
\* getChats() on the handle while the readiness query answers false; they
\* answer "client not ready" instead.
C15_NoHandleUseWhenNotReady ==
  (served.op \in {"send", "list"} /\ served.invoked) => served.ready

\* C16: in the "mock" class, once initAttempts has reached maxAttempts and the
\* mock handle is installed, isAuthenticated() and isClientReady() answer
\* false, and sendMessage() and getChats() of the handle fail with the
\* explicit "unavailable" error.
C16_DegradedHandleFailsExplicitly ==
  (variant = "mock" /\ mockMode /\ initAttempts >= maxAttempts) =>
     /\ ~isAuthenticated
     /\ ~isClientReady
     /\ (served.invoked /\ served.handle = "mock") => served.result = "unavailable"

\* C17: no failure in the lifecycle handling (a throw of createClient, a
\* rejection of destroy(), removeSession() or initialize()) leaves it as an
\* uncaught exception or an unhandled rejection.
C17_NoFailureEscapes == ~uncaught

\* C18: while initialize() of the current handle has failed, the manager has
\* a retry under way (a restart in flight or a retry timer pending), and
\* callers see readiness false.
InitFailed == ~client.mock /\ ~client.live /\ ~initPending
C18_FailedInitKeepsRetrying ==
  InitFailed => ((restarting \/ PendingRetries > 0) /\ ~isClientReady)

\* C19: the session directory is removed only inside restart() and logout():
\* no route of the facade removes it under a live (initializing or Ready)
\* client while neither sequence is running.
C19_SessionRemovedOnlyInSequences ==
  (served.op = "clearSession" /\ served.live) => served.sequence

\* C20: a disconnected event handled while a restart is in flight leaves the
\* restart machinery alone: restarting, backoff, the handle, the timers and
\* the running sequences are unchanged (no destroy, no removeSession, no
\* second restart); the handler only clears clientReady.
C20_DisconnectedDuringRestartIsNoOp ==
  [][(DisconnectedHandled /\ restarting) =>
       (/\ UNCHANGED <<restarting, backoff, client, orphans, initPending, staleInits,
                       runs, timers, logouts, fails, initAttempts, mockMode>>
        /\ ~clientReady')]_vars

C20_Witness ==
  /\ restarting
  /\ clientReady
  /\ ActiveRestarts = 1
  /\ Emits("cur") \/ Emits("old")

\* the step a restart sequence is at: 1 destroy(), 2 waitForBrowserClose(),
\* 3 removeSession(), 4 the backoff wait, 0 none
Stage ==
  CASE BagIn("destroy", runs) -> 1
    [] BagIn("waitClose", runs) -> 2
    [] BagIn("removeSession", runs) -> 3
    [] ActiveRestarts > 0 -> 4
    [] OTHER -> 0

\* initialize() promises that have not settled
Inits == staleInits + (IF initPending THEN 1 ELSE 0)

\* C21: the steps of a restart sequence come in order: destroy() has settled
\* before removeSession() starts, removeSession() has settled before the
\* backoff wait starts, and initialize() is called on a rebuilt client only
\* by the step that ends the backoff wait, after which the sequence removes
\* nothing more.
C21_RestartStepsInOrder ==
  [][/\ Stage' # Stage =>
          \/ Stage = 0 /\ Stage' \in {1, 2, 3}
          \/ Stage = 1 /\ Stage' \in {2, 3}
          \/ Stage = 2 /\ Stage' = 3
          \/ Stage = 3 /\ Stage' = 4
          \/ Stage = 4 /\ Stage' = 0
     /\ Inits' > Inits => (Stage = 4 /\ Stage' = 0)]_vars

C21_Witness ==
  variant = "basic" /\ client.subs = 2 /\ initPending /\ ~restarting /\ Stage = 0

\* destroy() of a restart sequence rejects
DestroyRejected == DestroySettle(FALSE)

\* C22: a rejection of destroy() is not fatal to the restart sequence: the
\* step that handles it leaves restarting, backoff and the timers alone and
\* goes on to waitForBrowserClose() or removeSession(); the failure branch
\* of restart() is entered only from the rebuild after the backoff wait; and
\* a sequence that rebuilds over a client whose destroy() rejected ends as a
\* success: restarting cleared, backoff not raised, no retry scheduled.
C22_DestroyRejectionNotFatal ==
  [][/\ DestroyRejected =>
          (UNCHANGED <<restarting, backoff, timers, fails>> /\ Stage' \in {2, 3})
     /\ RestartFails => Stage = 4
     /\ (Stage = 4 /\ client.live /\ Inits' > Inits) =>
          (~restarting' /\ backoff' <= backoff /\ ~RestartFails)]_vars

C22_Witness ==
  variant = "await" /\ orphans /\ ~restarting /\ initPending /\ client.live

\* removeSession() of a restart sequence settles
SessionRemoved == Stage = 3 /\ Stage' # 3

\* C23: removeSession() resolves whatever the directory removal did, and the
\* restart sequence that awaited it goes on to its backoff wait with
\* restarting and backoff as they were: it never enters the failure branch.
C23_RemoveSessionNeverRejects ==
  /\ [](\A rm \in RmOutcomes : removeSession(rm) = "resolved")
  /\ [][SessionRemoved =>
          (Stage' = 4 /\ UNCHANGED <<restarting, backoff, fails>> /\ ~RestartFails)]_vars

C23_Witness == Stage = 4 /\ restarting /\ ~client.live /\ variant # "basic"

\* waitForBrowserClose() of a restart sequence settles
WaitEnded == Stage = 2 /\ Stage' # 2

\* C24: the wait for the browser process always ends: waitForBrowserClose()
\* resolves when the process emits close, when it never does (timeout), when
\* there is no process and when asking for it throws; and the restart
\* sequence that awaited it goes on to removeSession(), never to its failure
\* branch.
C24_BrowserWaitAlwaysEnds ==
  /\ [](\A w \in WaitOutcomes : waitForBrowserClose(w) = "resolved")
  /\ [][WaitEnded =>
          (Stage' = 3 /\ UNCHANGED <<restarting, backoff, fails>> /\ ~RestartFails)]_vars

C24_Witness == Stage = 3 /\ restarting /\ variant \in {"basic", "await"}

\* C25: from the call of logout() to the end of the restart it triggers,
\* isAuthenticated() is false and no login token is stored.
C25_LogoutHidesSession ==
  logouts # EmptyBag => (~isAuthenticated /\ qrCode = NULL)

\* C26: in "await" and "capped" a login token is stored only while
\* authentication is pending: qrCode # null implies clientReady = false.
C26_TokenImpliesNotReady ==
  (variant \in {"await", "capped"} /\ qrCode # NULL) => ~clientReady

AuthFailureHandled == \E src \in {"cur", "old"} : OnAuthFailure(src)

\* C27: an auth_failure event clears qrCode and clientReady and nothing
\* else: restarting, backoff, initAttempts, the handle, the restart
\* sequences and the timers are as before (no restart, no retry).
C27_AuthFailureOnlyClears ==
  [][AuthFailureHandled =>
       (/\ qrCode' = NULL
        /\ ~clientReady'
        /\ UNCHANGED <<restarting, backoff, initAttempts, mockMode, client, orphans,
                       initPending, staleInits, runs, timers, intervals, logouts,
                       fails>>)]_vars

C27_Witness ==
  qrCode # NULL /\ ~clientReady /\ ~restarting /\ Emits("cur") /\ ActiveRestarts = 0

ReadyHandled == \E src \in {"cur", "old"} : OnReady(src)

\* the 30 s callback of "capped" runs
ResetFired == CopiesIn(TimerInitReset, timers') < CopiesIn(TimerInitReset, timers)

\* C28: in "capped" and "mock" every ready event sets initAttempts to 0, and
\* initAttempts changes in no other way than by one up at a rejected
\* initialize() and back to 0 at a ready event or at the 30 s reset: it
\* counts the initialization failures since the last of those.
C28_AttemptsCountFailuresSinceReady ==
  [][(variant \in {"capped", "mock"}) =>
       (/\ ReadyHandled => initAttempts' = 0
        /\ initAttempts' # initAttempts =>
              \/ InitRejected /\ initAttempts' = initAttempts + 1
              \/ (ReadyHandled \/ ResetFired) /\ initAttempts' = 0)]_vars

C28_Witness ==
  /\ variant = "capped"
  /\ initAttempts = 0
  /\ clientReady
  /\ \E t \in DOMAIN timers : t.kind = "initRetry"

\* a retry timer of a rejected initialize() fires: the 10 s timer, the
\* backoff timer or the 30 s timer
InitRetryFired ==
  \E t \in DOMAIN timers : t.kind \in {"initRetry", "initReset"} /\ RetryFire(t)

\* the current client is initialized and Ready, and no restart is in flight
Healthy == clientReady /\ ~restarting /\ client.live /\ client.ready

\* C29: a retry timer of a rejected initialize() that fires when the client
\* has been rebuilt and is Ready does not restart it: no destroy, no
\* removeSession, restarting and clientReady as before.
C29_RetryTimerSparesHealthySession ==
  [][(variant \in {"await", "capped"} /\ InitRetryFired /\ Healthy) =>
       UNCHANGED <<restarting, clientReady, runs>>]_vars

\* C30: in "await" and "basic", while a restart sequence is in flight the
\* manager is never Ready: restarting implies clientReady = false, hence
\* isAuthenticated() false.
C30_RestartingImpliesNotReady ==
  (variant \in {"await", "basic"} /\ restarting) => (~clientReady /\ ~isAuthenticated)

\* the promise of a logout() invocation resolves: an invocation that was
\* awaiting leaves, or a call returns without ever awaiting
LogoutResolved ==
  \/ BagCardinality(logouts') < BagCardinality(logouts)
  \/ LogoutCall /\ logouts' = logouts

\* C31: in "basic" and "await", in the state in which the promise of
\* logout() resolves, isAuthenticated() answers false.
C31_LoggedOutWhenLogoutResolves ==
  [][(variant \in {"basic", "await"} /\ LogoutResolved) => ~isAuthenticated']_vars

\* C32: whatever number of restart sequences has run, each event of the
\* current handle has exactly one handler: the handle of a real client in use
\* carries one subscription of _init, never more.
C32_OneHandlerPerEvent ==
  (client.live /\ ~client.mock) => client.subs = 1

\* C33: in "mock", mock mode is absorbing: once mockMode is true it stays
\* true, and isAuthenticated() and isClientReady() answer false and
\* isConnected() returns false without asking the client, whatever restarts,
\* logouts and events follow and whatever handle a restart builds.
C33_MockModeAbsorbing ==
  /\ [](mockMode =>
          (~isAuthenticated /\ ~isClientReady /\ isConnectedEarly(client, clientReady)))
  /\ [][mockMode => mockMode']_vars

C33_Witness ==
  variant = "mock" /\ mockMode /\ ~client.mock /\ client.live /\ clientReady

\* C34: in "capped" and "mock", 0 <= initAttempts <= maxAttempts in every
\* state.
C34_AttemptsWithinLimit ==
  (variant \in {"capped", "mock"}) => (initAttempts >= 0 /\ initAttempts <= maxAttempts)

ErrorHandled == \E src \in {"cur", "old"} : OnError(src)

\* C35: an error event starts and schedules no restart and leaves
\* restarting, backoff, qrCode and the handle as they were; "basic" sets
\* clientReady to false, the other classes change nothing at all.
C35_ErrorEventChangesNothing ==
  [][ErrorHandled =>
       (/\ UNCHANGED <<restarting, backoff, qrCode, client, orphans, initPending,
                       staleInits, initAttempts, mockMode, runs, timers, intervals,
                       encodings, logouts, fails>>
        /\ clientReady' = (IF variant = "basic" THEN FALSE ELSE clientReady))]_vars

C35_Witness ==
  variant = "basic" /\ clientReady /\ Emits("cur") /\ ~restarting /\ qrCode = NULL

\* C36: in "capped" and "mock" backoff is 2000 in every state: the rebuild of
\* a restart is always scheduled 2000 ms ahead, a retry of initialize()
\* 2000 ms ahead, and a retry after a restart error 4000 ms ahead.
C36_BackoffConstant ==
  (variant \in {"capped", "mock"}) =>
     /\ backoff = InitialBackoff
     /\ \A t \in DOMAIN timers :
          /\ t.kind \in {"rebuild", "initRetry"} => t.delay = InitialBackoff
          /\ t.kind = "retry" => t.delay = 2 * InitialBackoff

C36_Witness ==
  /\ variant = "capped"
  /\ initAttempts >= 2
  /\ BagIn(TimerRebuild(InitialBackoff), timers)
  /\ BagIn(TimerInitRetry(InitialBackoff), timers)

\* C37: in "mock" at most one periodic mock-QR refresh interval is active at
\* any time, however often setupMockEvents() has run.
C37_OneRefreshInterval == intervals <= 1

====
